---- MODULE Spec2Model ----
(***************************************************************************)
(* Model of the passwordless client SDK: the data model (models.py) and    *)
(* the API client with its error normaliser (client.py).                   *)
(*                                                                         *)
(* Strings that the code concatenates or tests by prefix (URLs, header     *)
(* values, body texts) are sequences of text fragments, so that the        *)
(* concatenation and the startswith test are computed.  Time is counted in *)
(* minutes.  A Python exception is a record [kind |-> "raise", exc |-> _]. *)
(***************************************************************************)
EXTENDS Integers, Sequences, FiniteSets, TLC

\* Bounds of the model.
MaxTime == 3
MaxTokens == 2
MaxItems == 1

\* Program constants.
TIMEOUT == 30
EXPIRY_MINUTES == 2

VARIABLES
    client,                     \* the PasswordlessApiClientImpl: [options, session]
    call,                       \* the last invocation: [op, arg]
    reply,                      \* what the transport did with the last send
    wire,                       \* the session.send calls made by the last invocation
    loaded,                     \* the schemas whose loads ran in the last invocation
    outcome,                    \* how the last invocation ended: returned or raised
    now,                        \* the process's clock, datetime.utcnow()
    RegisterToken_expires_at,   \* the class attribute default of RegisterToken
    tokens                      \* the RegisterToken objects the caller constructed

vars == <<client, call, reply, wire, loaded, outcome, now, RegisterToken_expires_at, tokens>>

----------------------------------------------------------------------------
\* Python values.

PyNone == "None"
Return(v) == [kind |-> "return", value |-> v]
Raise(e) == [kind |-> "raise", exc |-> e]
EmptyDict == [k \in {} |-> ""]

\* str.startswith
startswith(s, prefix) ==
    /\ Len(s) >= Len(prefix)
    /\ SubSeq(s, 1, Len(prefix)) = prefix

----------------------------------------------------------------------------
\* errors.py

PasswordlessProblemDetails(type, status, title, detail) ==
    [type |-> type, status |-> status, title |-> title, detail |-> detail]

PasswordlessError(problem_details) ==
    [kind |-> "raise", exc |-> "PasswordlessError", problem_details |-> problem_details]

----------------------------------------------------------------------------
\* serialization.py: the wire format.  A JSON text is a sequence of tokens:
\* <<"{", key, value, ..., "}">> is an object of scalar members and
\* <<"{", "values", "[", item, ..., "]", "}">> is a list envelope.

Punctuation == {"{", "}", "[", "]"}

Scalars(t, a, b) == \A i \in a..b : t[i] \notin Punctuation

IsFlatObject(t) ==
    /\ Len(t) >= 2
    /\ t[1] = "{"
    /\ t[Len(t)] = "}"
    /\ (Len(t) - 2) % 2 = 0
    /\ Scalars(t, 2, Len(t) - 1)

IsListObject(t) ==
    /\ Len(t) >= 5
    /\ t[1] = "{"
    /\ t[2] = "values"
    /\ t[3] = "["
    /\ t[Len(t) - 1] = "]"
    /\ t[Len(t)] = "}"
    /\ Scalars(t, 4, Len(t) - 2)

IsJson(t) == IsFlatObject(t) \/ IsListObject(t)

json_keys(t) == {t[2 * i] : i \in 1..((Len(t) - 2) \div 2)}

json_object(t) ==
    [k \in json_keys(t) |->
        t[2 * (CHOOSE i \in 1..((Len(t) - 2) \div 2) : t[2 * i] = k) + 1]]

\* the integer a JSON number token denotes
IntOf == ("400" :> 400) @@ ("404" :> 404) @@ ("500" :> 500)

ListSchemas ==
    {"AliasListResponseSchema", "CredentialListResponseSchema",
     "UserSummaryListResponseSchema"}

SuccessSchemas == ListSchemas \cup {"RegisteredTokenSchema", "VerifiedUserSchema"}

\* Schema.loads: strict decoding; a text that is not JSON, or lacks or
\* mistypes a field, raises a deserialization error.
loads(schema, text) ==
    IF ~IsJson(text) THEN Raise("JSONDecodeError")
    ELSE IF schema = "PasswordlessProblemDetailsSchema" THEN
        IF /\ IsFlatObject(text)
           /\ json_keys(text) = {"type", "status", "title", "detail"}
           /\ json_object(text)["status"] \in DOMAIN IntOf
        THEN LET o == json_object(text)
             IN Return(PasswordlessProblemDetails(
                    o["type"], IntOf[o["status"]], o["title"], o["detail"]))
        ELSE Raise("ValidationError")
    ELSE IF schema \in ListSchemas THEN
        IF IsListObject(text)
        THEN Return([values |-> SubSeq(text, 4, Len(text) - 2)])
        ELSE Raise("ValidationError")
    ELSE IF schema = "RegisteredTokenSchema" THEN
        IF IsFlatObject(text) /\ json_keys(text) = {"token"}
        THEN Return([token |-> json_object(text)["token"]])
        ELSE Raise("ValidationError")
    ELSE \* VerifiedUserSchema
        IF /\ IsFlatObject(text)
           /\ json_keys(text) = {"success", "userId"}
           /\ json_object(text)["success"] \in {"true", "false"}
        THEN LET o == json_object(text)
             IN Return([success |-> o["success"] = "true", user_id |-> o["userId"]])
        ELSE Raise("ValidationError")

\* Schema.dumps: the record under its wire field names.
dumps(schema, obj) ==
    IF schema = "CreateAliasSchema" THEN
        [userId |-> obj.user_id, aliases |-> obj.aliases, hashing |-> obj.hashing]
    ELSE IF schema = "UpdateAppsFeatureSchema" THEN
        [auditLoggingRetentionPeriod |-> obj.audit_logging_retention_period]
    ELSE IF schema = "DeleteCredentialSchema" THEN
        [credentialId |-> obj.credential_id]
    ELSE IF schema = "RegisterTokenSchema" THEN
        [userId |-> obj.user_id, username |-> obj.username,
         displayName |-> obj.display_name, attestation |-> obj.attestation,
         authenticatorType |-> obj.authenticator_type,
         discoverable |-> obj.discoverable,
         userVerification |-> obj.user_verification, aliases |-> obj.aliases,
         aliasHashing |-> obj.alias_hashing, expiresAt |-> obj.expires_at]
    ELSE IF schema = "VerifySignInSchema" THEN
        [token |-> obj.token]
    ELSE \* DeleteUserSchema
        [userId |-> obj.user_id]

----------------------------------------------------------------------------
\* models.py: the request records.

CreateAlias(user_id, aliases) ==
    [user_id |-> user_id, aliases |-> aliases, hashing |-> TRUE]

UpdateAppsFeature(audit_logging_retention_period) ==
    [audit_logging_retention_period |-> audit_logging_retention_period]

DeleteCredential(credential_id) == [credential_id |-> credential_id]

VerifySignIn(token) == [token |-> token]

DeleteUser(user_id) == [user_id |-> user_id]

\* The value of the expression datetime.utcnow() + timedelta(minutes=2)
\* evaluated when the clock reads t.
expires_at_default(t) == t + EXPIRY_MINUTES

\* RegisterToken(user_id, username, display_name[, expires_at=...]): a field
\* the caller leaves out takes the class attribute, class_default, which the
\* class statement computed when the module was loaded.
RegisterToken(user_id, username, display_name, expires_at, class_default) ==
    [user_id |-> user_id, username |-> username, display_name |-> display_name,
     attestation |-> "none", authenticator_type |-> "any", discoverable |-> TRUE,
     user_verification |-> "preferred", aliases |-> <<>>, alias_hashing |-> TRUE,
     expires_at |-> IF expires_at = <<>> THEN class_default ELSE expires_at[1]]

----------------------------------------------------------------------------
\* client.py: the error normaliser.

APPLICATION_PROBLEM_JSON == <<"application/problem", "+json">>
ERRORS_URL == "https://docs.passwordless.dev/guide/errors.html"

\* handle_response_error with the fallback record built without the body text.
handle_response_error_no_detail(response) ==
    LET is_problem ==
            /\ "Content-Type" \in DOMAIN response.headers
            /\ startswith(response.headers["Content-Type"], APPLICATION_PROBLEM_JSON)
        decoded == loads("PasswordlessProblemDetailsSchema", response.text)
        ran == IF is_problem THEN <<"PasswordlessProblemDetailsSchema">> ELSE <<>>
    IN  IF is_problem /\ decoded.kind = "raise"
        THEN [out |-> decoded, loaded |-> ran]
        ELSE LET problem_details == IF is_problem THEN <<decoded.value>> ELSE <<>>
                 raised ==
                     IF problem_details = <<>>
                     THEN PasswordlessProblemDetails(
                              ERRORS_URL, response.status_code,
                              "Unexpected error", <<>>)
                     ELSE problem_details[1]
             IN [out |-> PasswordlessError(raised), loaded |-> ran]

\* handle_response_error with the decoded record's status overwritten by the
\* HTTP status code.
handle_response_error_http_status(response) ==
    LET is_problem ==
            /\ "Content-Type" \in DOMAIN response.headers
            /\ startswith(response.headers["Content-Type"], APPLICATION_PROBLEM_JSON)
        decoded == loads("PasswordlessProblemDetailsSchema", response.text)
        ran == IF is_problem THEN <<"PasswordlessProblemDetailsSchema">> ELSE <<>>
    IN  IF is_problem /\ decoded.kind = "raise"
        THEN [out |-> decoded, loaded |-> ran]
        ELSE LET problem_details == IF is_problem THEN <<decoded.value>> ELSE <<>>
                 raised ==
                     IF problem_details = <<>>
                     THEN PasswordlessProblemDetails(
                              ERRORS_URL, response.status_code,
                              "Unexpected error", response.text)
                     ELSE [problem_details[1] EXCEPT !.status = response.status_code]
             IN [out |-> PasswordlessError(raised), loaded |-> ran]

\* handle_response_error(response): [out, loaded], out the exception raised
\* and loaded the schemas whose loads ran.
handle_response_error(response) ==
    LET is_problem ==
            /\ "Content-Type" \in DOMAIN response.headers
            /\ startswith(response.headers["Content-Type"], APPLICATION_PROBLEM_JSON)
        decoded == loads("PasswordlessProblemDetailsSchema", response.text)
        ran == IF is_problem THEN <<"PasswordlessProblemDetailsSchema">> ELSE <<>>
    IN  IF is_problem /\ decoded.kind = "raise"
        THEN [out |-> decoded, loaded |-> ran]
        ELSE LET problem_details == IF is_problem THEN <<decoded.value>> ELSE <<>>
                 raised ==
                     IF problem_details = <<>>
                     THEN PasswordlessProblemDetails(
                              ERRORS_URL, response.status_code,
                              "Unexpected error", response.text)
                     ELSE problem_details[1]
             IN [out |-> PasswordlessError(raised), loaded |-> ran]

----------------------------------------------------------------------------
\* The transport (requests.Session) as the client sees it.

\* session.send(prepped_request, allow_redirects=True, timeout=timeout): the
\* response, or the transport's exception when the network fails or the
\* server has not answered within the timeout.
session_send(rep, timeout) ==
    IF rep.kind = "neterr" THEN Raise("ConnectionError")
    ELSE IF rep.elapsed > timeout THEN Raise("Timeout")
    ELSE Return(rep.response)

----------------------------------------------------------------------------
\* client.py: PasswordlessApiClientImpl and its builder.

PasswordlessApiClientImpl(options, session) ==
    [options |-> options, session |-> session]

\* PasswordlessApiClientBuilder(options, session=None)
PasswordlessApiClientBuilder(options, session) ==
    [options |-> options,
     session |-> IF session = <<>> THEN "Session()" ELSE session[1]]

build(builder) == PasswordlessApiClientImpl(builder.options, builder.session)

\* build_url joining the base URL and the path with a slash.
build_url_joined(self, path) == self.options.api_url \o <<"/">> \o path

build_url(self, path) == self.options.api_url \o path

\* build_headers setting Content-Type whatever the verb.
build_headers_always_content_type(self, post) ==
    ("ApiSecret" :> self.options.api_secret)
        @@ ("Content-Type" :> "application/json; charset=UTF-8")

build_headers(self, post) ==
    IF post
    THEN ("ApiSecret" :> self.options.api_secret)
             @@ ("Content-Type" :> "application/json; charset=UTF-8")
    ELSE ("ApiSecret" :> self.options.api_secret)

\* get_request(path, query_params=None): query_params is <<>> for None and
\* <<dict>> otherwise.
get_request(self, path, query_params) ==
    LET params == IF query_params = <<>> THEN EmptyDict ELSE query_params[1]
        url == build_url(self, path)
        headers == build_headers(self, FALSE)
    IN [method |-> "GET", url |-> url, headers |-> headers,
        params |-> params, data |-> <<>>]

post_request(self, path, data) ==
    LET url == build_url(self, path)
        headers == build_headers(self, TRUE)
    IN [method |-> "POST", url |-> url, headers |-> headers,
        params |-> EmptyDict, data |-> <<data>>]

\* One call of session.send, as the transport sees it.
Sent(self, request) ==
    [request |-> request, session |-> self.session,
     allow_redirects |-> TRUE, timeout |-> TIMEOUT]

\* send_request sending once more after a 5xx answer.
send_request_retry(self, request, rep) ==
    LET got == session_send(rep, TIMEOUT)
        once == <<Sent(self, request)>>
    IN  IF got.kind = "raise"
        THEN [out |-> got, sent |-> once, loaded |-> <<>>]
        ELSE LET response == got.value
                 sent == IF response.status_code >= 500
                         THEN once \o <<Sent(self, request)>> ELSE once
             IN IF response.status_code >= 400
                THEN LET h == handle_response_error(response)
                     IN [out |-> h.out, sent |-> sent, loaded |-> h.loaded]
                ELSE [out |-> Return(response.text), sent |-> sent, loaded |-> <<>>]

\* send_request catching the transport's exception and raising
\* PasswordlessError in its place.
send_request_wrapping(self, request, rep) ==
    LET got == session_send(rep, TIMEOUT)
        sent == <<Sent(self, request)>>
    IN  IF got.kind = "raise"
        THEN [out |-> PasswordlessError(PasswordlessProblemDetails(
                          ERRORS_URL, 0, "Unexpected error", <<got.exc>>)),
              sent |-> sent, loaded |-> <<>>]
        ELSE LET response == got.value
             IN IF response.status_code >= 400
                THEN LET h == handle_response_error(response)
                     IN [out |-> h.out, sent |-> sent, loaded |-> h.loaded]
                ELSE [out |-> Return(response.text), sent |-> sent, loaded |-> <<>>]

\* send_request(request) when the transport answers with rep: [out, sent,
\* loaded], out the text returned or the exception raised, sent the calls of
\* session.send it made.
send_request(self, request, rep) ==
    LET got == session_send(rep, TIMEOUT)
        sent == <<Sent(self, request)>>
    IN  IF got.kind = "raise"
        THEN [out |-> got, sent |-> sent, loaded |-> <<>>]
        ELSE LET response == got.value
             IN IF response.status_code >= 400
                THEN LET h == handle_response_error(response)
                     IN [out |-> h.out, sent |-> sent, loaded |-> h.loaded]
                ELSE [out |-> Return(response.text), sent |-> sent, loaded |-> <<>>]

----------------------------------------------------------------------------
\* The inputs: configurations, arguments and what the transport may answer.

Options ==
    [api_url : {<<"https://v4.passwordless.dev">>, <<"https://v4.passwordless.dev", "/">>},
     api_secret : {"secret-1", "secret-2"}]

Sessions == {<<>>, <<"injected">>}

UserIds == {"u1", "u2"}

Items == {"x1", "x2"}

RECURSIVE SeqsUpTo(_, _)
SeqsUpTo(S, n) ==
    IF n = 0 THEN {<<>>}
    ELSE LET shorter == SeqsUpTo(S, n - 1)
         IN shorter \cup {Append(q, x) : q \in shorter, x \in S}

ListText(values) == <<"{", "values", "[">> \o values \o <<"]", "}">>

PlainText == <<"internal error">>
ProblemText ==
    <<"{", "type", "about:blank", "status", "400", "title", "Bad user",
      "detail", "username taken", "}">>
TruncatedProblemText ==
    <<"{", "type", "about:blank", "status", "400", "title", "Bad user">>
PartialProblemText == <<"{", "title", "Bad user", "}">>
TokenText == <<"{", "token", "tok1", "}">>
UserText == <<"{", "success", "true", "userId", "u1", "}">>

ErrorTexts == {PlainText, ProblemText, TruncatedProblemText, PartialProblemText}

SuccessTexts ==
    {<<>>, PlainText, TokenText, UserText}
        \cup {ListText(v) : v \in SeqsUpTo(Items, MaxItems)}

NoHeaders == EmptyDict
ContentType(v) == "Content-Type" :> v

ErrorHeaders ==
    {NoHeaders,
     ContentType(<<"text/plain">>),
     ContentType(<<"application/problem">>),
     ContentType(<<"application/problem", "+json">>),
     ContentType(<<"application/problem", "+json", "; charset=utf-8">>)}

SuccessHeaders == {NoHeaders, ContentType(<<"application/json">>)}

Response(status_code, headers, text) ==
    [status_code |-> status_code, headers |-> headers, text |-> text]

Answer(elapsed, response) ==
    [kind |-> "response", elapsed |-> elapsed, response |-> response]

Replies ==
    {Answer(1, Response(400, h, t)) : h \in ErrorHeaders, t \in ErrorTexts}
    \cup {Answer(1, Response(500, h, t)) :
            h \in {NoHeaders, ContentType(<<"text/plain">>),
                   ContentType(<<"application/problem", "+json">>)},
            t \in {PlainText, ProblemText}}
    \cup {Answer(1, Response(200, h, t)) : h \in SuccessHeaders, t \in SuccessTexts}
    \cup {Answer(1, Response(c, NoHeaders, <<>>)) : c \in {204, 304}}
    \cup {Answer(TIMEOUT, Response(200, ContentType(<<"application/json">>), ListText(<<>>))),
          Answer(TIMEOUT + 1, Response(200, ContentType(<<"application/json">>), ListText(<<>>))),
          Answer(TIMEOUT + 1, Response(500, ContentType(<<"text/plain">>), PlainText))}
    \cup {[kind |-> "neterr", elapsed |-> 1]}

----------------------------------------------------------------------------
\* The state after construction: a client built by the builder, nothing
\* called yet; models.py loaded at time 0.

NoCall == [op |-> "none"]

Init ==
    /\ \E options \in Options, session \in Sessions :
          client = build(PasswordlessApiClientBuilder(options, session))
    /\ call = NoCall
    /\ reply = [kind |-> "none"]
    /\ wire = <<>>
    /\ loaded = <<>>
    /\ outcome = [kind |-> "none"]
    /\ now = 0
    /\ RegisterToken_expires_at = expires_at_default(now)
    /\ tokens = <<>>

\* The end of an invocation of op with arg, the transport having answered rep.
Completed(op, arg, rep, sent, ran, out) ==
    /\ call' = [op |-> op, arg |-> arg]
    /\ reply' = rep
    /\ wire' = sent
    /\ loaded' = ran
    /\ outcome' = out
    /\ UNCHANGED <<client, now, RegisterToken_expires_at, tokens>>

create_alias ==
    \E u \in {"u1"}, rep \in Replies :
        LET arg == CreateAlias(u, <<"a@b.com">>)
            request_data == dumps("CreateAliasSchema", arg)
            request == post_request(client, <<"/alias">>, request_data)
            r == send_request(client, request, rep)
        IN Completed("create_alias", arg, rep, r.sent, r.loaded,
                     IF r.out.kind = "raise" THEN r.out ELSE Return(PyNone))

get_aliases ==
    \E user_id \in UserIds, rep \in Replies :
        LET request == get_request(client, <<"/alias/list">>, <<"userId" :> user_id>>)
            r == send_request(client, request, rep)
            list_response == loads("AliasListResponseSchema", r.out.value)
        IN IF r.out.kind = "raise"
           THEN Completed("get_aliases", user_id, rep, r.sent, r.loaded, r.out)
           ELSE Completed("get_aliases", user_id, rep, r.sent,
                          r.loaded \o <<"AliasListResponseSchema">>,
                          IF list_response.kind = "raise" THEN list_response
                          ELSE Return(list_response.value.values))

update_apps_feature ==
    \E period \in {30}, rep \in Replies :
        LET arg == UpdateAppsFeature(period)
            request_data == dumps("UpdateAppsFeatureSchema", arg)
            request == post_request(client, <<"/apps/features">>, request_data)
            r == send_request(client, request, rep)
        IN Completed("update_apps_feature", arg, rep, r.sent, r.loaded,
                     IF r.out.kind = "raise" THEN r.out ELSE Return(PyNone))

delete_credential ==
    \E credential_id \in {"c1"}, rep \in Replies :
        LET arg == DeleteCredential(credential_id)
            request_data == dumps("DeleteCredentialSchema", arg)
            request == post_request(client, <<"/credentials/delete">>, request_data)
            r == send_request(client, request, rep)
        IN Completed("delete_credential", arg, rep, r.sent, r.loaded,
                     IF r.out.kind = "raise" THEN r.out ELSE Return(PyNone))

get_credentials ==
    \E user_id \in UserIds, rep \in Replies :
        LET request == get_request(client, <<"/credentials/list">>, <<"userId" :> user_id>>)
            r == send_request(client, request, rep)
            list_response == loads("CredentialListResponseSchema", r.out.value)
        IN IF r.out.kind = "raise"
           THEN Completed("get_credentials", user_id, rep, r.sent, r.loaded, r.out)
           ELSE Completed("get_credentials", user_id, rep, r.sent,
                          r.loaded \o <<"CredentialListResponseSchema">>,
                          IF list_response.kind = "raise" THEN list_response
                          ELSE Return(list_response.value.values))

register_token ==
    \E user_id \in {"u1"}, rep \in Replies :
        LET arg == RegisterToken(user_id, "name", "Name", <<>>, RegisterToken_expires_at)
            request_data == dumps("RegisterTokenSchema", arg)
            request == post_request(client, <<"/register/token">>, request_data)
            r == send_request(client, request, rep)
            registered == loads("RegisteredTokenSchema", r.out.value)
        IN IF r.out.kind = "raise"
           THEN Completed("register_token", arg, rep, r.sent, r.loaded, r.out)
           ELSE Completed("register_token", arg, rep, r.sent,
                          r.loaded \o <<"RegisteredTokenSchema">>, registered)

sign_in ==
    \E token \in {"tok1"}, rep \in Replies :
        LET arg == VerifySignIn(token)
            request_data == dumps("VerifySignInSchema", arg)
            request == post_request(client, <<"/signin/verify">>, request_data)
            r == send_request(client, request, rep)
            verified == loads("VerifiedUserSchema", r.out.value)
        IN IF r.out.kind = "raise"
           THEN Completed("sign_in", arg, rep, r.sent, r.loaded, r.out)
           ELSE Completed("sign_in", arg, rep, r.sent,
                          r.loaded \o <<"VerifiedUserSchema">>, verified)

get_users ==
    \E rep \in Replies :
        LET request == get_request(client, <<"/users/list">>, <<>>)
            r == send_request(client, request, rep)
            list_response == loads("UserSummaryListResponseSchema", r.out.value)
        IN IF r.out.kind = "raise"
           THEN Completed("get_users", PyNone, rep, r.sent, r.loaded, r.out)
           ELSE Completed("get_users", PyNone, rep, r.sent,
                          r.loaded \o <<"UserSummaryListResponseSchema">>,
                          IF list_response.kind = "raise" THEN list_response
                          ELSE Return(list_response.value.values))

delete_user ==
    \E user_id \in UserIds, rep \in Replies :
        LET arg == DeleteUser(user_id)
            request_data == dumps("DeleteUserSchema", arg)
            request == post_request(client, <<"/users/delete">>, request_data)
            r == send_request(client, request, rep)
        IN Completed("delete_user", arg, rep, r.sent, r.loaded,
                     IF r.out.kind = "raise" THEN r.out ELSE Return(PyNone))

Next ==
    \/ create_alias
    \/ get_aliases
    \/ update_apps_feature
    \/ delete_credential
    \/ get_credentials
    \/ register_token
    \/ sign_in
    \/ get_users
    \/ delete_user

Spec == Init /\ [][Next]_vars

----------------------------------------------------------------------------
\* The caller constructing request records while the clock runs.

tick ==
    /\ now < MaxTime
    /\ now' = now + 1
    /\ UNCHANGED <<client, call, reply, wire, loaded, outcome,
                   RegisterToken_expires_at, tokens>>

\* RegisterToken(user_id, username, display_name), expires_at left out or given.
construct_RegisterToken ==
    /\ Len(tokens) < MaxTokens
    /\ \E user_id \in UserIds, expires_at \in {<<>>, <<now + 1>>, <<now + 5>>} :
          tokens' = Append(tokens,
              [obj |-> RegisterToken(user_id, "name", "Name", expires_at,
                                     RegisterToken_expires_at),
               created_at |-> now,
               explicit |-> expires_at # <<>>])
    /\ UNCHANGED <<client, call, reply, wire, loaded, outcome,
                   now, RegisterToken_expires_at>>

ModelNext ==
    \/ tick
    \/ construct_RegisterToken

ModelSpec == Init /\ [][ModelNext]_vars

----------------------------------------------------------------------------
\* Properties.

Called == call.op # "none"

\* The transport handed a response to the last invocation.
Delivered == Called /\ reply.kind = "response" /\ reply.elapsed <= TIMEOUT

ErrorResponse == Delivered /\ reply.response.status_code >= 400

ProblemContentType ==
    /\ "Content-Type" \in DOMAIN reply.response.headers
    /\ startswith(reply.response.headers["Content-Type"], <<"application/problem", "+json">>)

ParseErrors == {"JSONDecodeError", "ValidationError"}

NoReturnOps == {"create_alias", "update_apps_feature", "delete_credential", "delete_user"}

\* C1: a response with status >= 400, whatever its Content-Type and body,
\* never makes the operation raise a parse/deserialization error.
C1_NoParseErrorOnErrorResponse ==
    ErrorResponse => ~(outcome.kind = "raise" /\ outcome.exc \in ParseErrors)

\* C2: a response with status >= 400 makes the operation raise a single
\* PasswordlessError wrapping one ProblemDetails, return nothing, and never
\* decode the body as the operation's success type.
C2_ErrorResponseRaisesPasswordlessError ==
    ErrorResponse =>
        /\ outcome.kind = "raise"
        /\ outcome.exc = "PasswordlessError"
        /\ DOMAIN outcome.problem_details = {"type", "status", "title", "detail"}
        /\ \A i \in DOMAIN loaded : loaded[i] \notin SuccessSchemas

\* C3: a response with status >= 400 whose Content-Type is missing or does
\* not begin with application/problem+json raises PasswordlessError with the
\* synthesized record: status the HTTP status code, detail the raw body text,
\* title "Unexpected error", type the documentation URL.
C3_FallbackIsSynthesized ==
    (ErrorResponse /\ ~ProblemContentType) =>
        outcome = [kind |-> "raise", exc |-> "PasswordlessError",
                   problem_details |->
                       [type |-> "https://docs.passwordless.dev/guide/errors.html",
                        status |-> reply.response.status_code,
                        title |-> "Unexpected error",
                        detail |-> reply.response.text]]

\* C3 witness: HTTP 500, text/plain, body "internal error".
C3_Witness ==
    /\ ErrorResponse
    /\ reply.response.status_code = 500
    /\ reply.response.headers = ("Content-Type" :> <<"text/plain">>)
    /\ reply.response.text = <<"internal error">>
    /\ outcome.kind = "raise"
    /\ outcome.exc = "PasswordlessError"
    /\ outcome.problem_details.detail = <<"internal error">>
    /\ outcome.problem_details.status = 500

\* C4: a response with status >= 400, a Content-Type beginning with
\* application/problem+json and a valid problem record as its body raises
\* PasswordlessError with exactly the body's fields: the body's status, not
\* the HTTP status code, and the body's title.
C4_ProblemJsonIsDecoded ==
    (ErrorResponse /\ ProblemContentType /\ reply.response.text = ProblemText) =>
        outcome = [kind |-> "raise", exc |-> "PasswordlessError",
                   problem_details |->
                       [type |-> "about:blank", status |-> 400,
                        title |-> "Bad user", detail |-> "username taken"]]

\* C4 witness: HTTP 500 carrying a problem record whose status is 400.
C4_Witness ==
    /\ ErrorResponse
    /\ ProblemContentType
    /\ reply.response.status_code = 500
    /\ reply.response.text = ProblemText
    /\ call.op = "register_token"
    /\ outcome.kind = "raise"
    /\ outcome.exc = "PasswordlessError"
    /\ outcome.problem_details.status = 400
    /\ outcome.problem_details.title = "Bad user"

\* C5: create_alias, update_apps_feature, delete_credential and delete_user
\* return without raising only if the response status is in 200..299.
C5_NoReturnOpsSucceedOnlyOn2xx ==
    (Called /\ call.op \in NoReturnOps /\ outcome.kind = "return") =>
        /\ reply.kind = "response"
        /\ reply.response.status_code \in 200..299

\* C6: a RegisterToken constructed without an explicit expires_at expires 2
\* minutes after its own creation, so two such tokens created at different
\* times have different expires_at.
C6_DefaultExpiryFollowsCreation ==
    /\ \A i \in DOMAIN tokens :
          ~tokens[i].explicit => tokens[i].obj.expires_at = tokens[i].created_at + 2
    /\ \A i, j \in DOMAIN tokens :
          (/\ ~tokens[i].explicit
           /\ ~tokens[j].explicit
           /\ tokens[i].created_at # tokens[j].created_at)
              => tokens[i].obj.expires_at # tokens[j].obj.expires_at

ExpectedVerb ==
    [op \in {"create_alias", "update_apps_feature", "delete_credential",
             "register_token", "sign_in", "delete_user"} |-> "POST"]
    @@ [op \in {"get_aliases", "get_credentials", "get_users"} |-> "GET"]

ExpectedPath ==
    ("create_alias" :> <<"/alias">>)
    @@ ("get_aliases" :> <<"/alias/list">>)
    @@ ("update_apps_feature" :> <<"/apps/features">>)
    @@ ("delete_credential" :> <<"/credentials/delete">>)
    @@ ("get_credentials" :> <<"/credentials/list">>)
    @@ ("register_token" :> <<"/register/token">>)
    @@ ("sign_in" :> <<"/signin/verify">>)
    @@ ("get_users" :> <<"/users/list">>)
    @@ ("delete_user" :> <<"/users/delete">>)

\* C7: every request an operation sends has the enumerated verb, the URL
\* api_url followed by the enumerated path, and the query parameter userId
\* (the caller's user_id) for get_aliases and get_credentials only.
C7_VerbPathAndQuery ==
    Called =>
        /\ wire # <<>>
        /\ \A i \in DOMAIN wire :
              LET request == wire[i].request
              IN /\ request.method = ExpectedVerb[call.op]
                 /\ request.url = client.options.api_url \o ExpectedPath[call.op]
                 /\ IF call.op \in {"get_aliases", "get_credentials"}
                    THEN /\ DOMAIN request.params = {"userId"}
                         /\ request.params["userId"] = call.arg
                    ELSE DOMAIN request.params = {}

\* C7 witness: get_aliases("u2") against a base URL with a trailing slash.
C7_Witness ==
    /\ call.op = "get_aliases"
    /\ call.arg = "u2"
    /\ Len(wire) = 1
    /\ wire[1].request.method = "GET"
    /\ wire[1].request.url = <<"https://v4.passwordless.dev", "/", "/alias/list">>
    /\ wire[1].request.params["userId"] = "u2"

\* C8: every request sent carries ApiSecret with the configured api_secret;
\* a POST also carries Content-Type: application/json; charset=UTF-8 and a
\* GET carries no Content-Type.
C8_Headers ==
    Called =>
        /\ wire # <<>>
        /\ \A i \in DOMAIN wire :
              LET request == wire[i].request
              IN /\ "ApiSecret" \in DOMAIN request.headers
                 /\ request.headers["ApiSecret"] = client.options.api_secret
                 /\ IF request.method = "POST"
                    THEN /\ "Content-Type" \in DOMAIN request.headers
                         /\ request.headers["Content-Type"]
                                = "application/json; charset=UTF-8"
                    ELSE "Content-Type" \notin DOMAIN request.headers

\* C8 witness: a GET sent with the secret and no Content-Type.
C8_Witness ==
    /\ call.op = "get_users"
    /\ client.options.api_secret = "secret-2"
    /\ Len(wire) = 1
    /\ wire[1].request.method = "GET"
    /\ DOMAIN wire[1].request.headers = {"ApiSecret"}
    /\ wire[1].request.headers["ApiSecret"] = "secret-2"

\* C9: every invocation makes exactly one transport send, then returns or
\* raises, and leaves the client's options and session as they were.
C9_OneSendPerInvocation ==
    [][/\ Len(wire') = 1
       /\ outcome'.kind \in {"return", "raise"}
       /\ client' = client]_vars

\* C9 witness: an invocation that failed on a 500 answer after one send.
C9_Witness ==
    /\ ErrorResponse
    /\ reply.response.status_code = 500
    /\ outcome.kind = "raise"
    /\ Len(wire) = 1

\* C10: when the transport fails (network error, or no answer within the
\* timeout) the operation raises the transport's own error, neither wrapped
\* in PasswordlessError nor replaced by a returned value.
C10_TransportErrorSurfaces ==
    (Called /\ (reply.kind = "neterr" \/ reply.elapsed > TIMEOUT)) =>
        /\ outcome.kind = "raise"
        /\ outcome.exc = IF reply.kind = "neterr" THEN "ConnectionError" ELSE "Timeout"
        /\ DOMAIN outcome = {"kind", "exc"}

\* C10 witness: get_users timing out on an answer that would have been an
\* empty list.
C10_Witness ==
    /\ call.op = "get_users"
    /\ reply.kind = "response"
    /\ reply.elapsed > TIMEOUT
    /\ reply.response.status_code = 200
    /\ outcome.kind = "raise"
    /\ outcome.exc = "Timeout"

====
